---- MODULE Spec2Model ----
(***************************************************************************)
(* cncserver.js: the pen state, the height / motion / tool-change          *)
(* controller, the serial command boundary and the connection manager.     *)
(*                                                                         *)
(* Numbers.  JavaScript numbers are modelled in fixed point:               *)
(*   - positions (pen.x, pen.y, targets) in units of 1/PosDen step;        *)
(*   - distances (movePenAbs's return value, pen.distanceCounter) in       *)
(*     units of 1/DistDen step, truncated;                                 *)
(*   - a numeric pen state (0 to 1) in thousandths;                        *)
(*   - servo percentages in tenths of a percent.                           *)
(* Step deltas, durations and servo values are integers in the code.       *)
(* One action is one run-to-completion turn of the event loop: a request   *)
(* handler, a timer callback or a serial port event.                       *)
(***************************************************************************)
EXTENDS Integers, Sequences, FiniteSets, TLC

\* ---------------------------------------------------------------- bounds
\* Requests accepted in one run.
MaxRequests == 3
\* Requests accepted in one run of LiveSpec.
MaxLiveRequests == 2
\* Tool changes accepted in one run.
MaxToolChanges == 1

\* ------------------------------------------------- configuration read by the code
\* BOT.maxArea / BOT.workArea, in steps.
MaxAreaWidth == 4
MaxAreaHeight == 3
WorkAreaLeft == 2
WorkAreaTop == 1
\* servo:min, servo:max, servo:presets (percentages).
ServoMin == 10
ServoMax == 30
PresetUp == 70
PresetPaint == 30
PresetWash == 0
\* speed:drawing, speed:moving, in steps per second.
SpeedDrawing == 2
SpeedMoving == 5000
\* The values servo:duration takes (the settings endpoint can set it).
ServoDurations == {0, 40}
DefaultServoDuration == 40
\* bufferLatencyOffset, invertAxis, swapMotors.
BufferLatencyOffset == 50
InvertAxisX == FALSE
InvertAxisY == TRUE
SwapMotors == TRUE

\* Fixed-point denominators.
PosDen == 2
DistDen == 10

\* isNaN / undefined input, as a value no arithmetic is done on.
NaN == -999999

Presets == [up |-> PresetUp, paint |-> PresetPaint, wash |-> PresetWash]

\* botConf tools: position in steps, wiggle parameters.  color1 is a profile
\* whose x is not a number.
Tools ==
  [color0 |-> [x |-> 0, y |-> 2, wiggleAxis |-> "xy", wiggleTravel |-> 1,
               wiggleIterations |-> 3],
   color1 |-> [x |-> NaN, y |-> 1, wiggleAxis |-> "x", wiggleTravel |-> 1,
               wiggleIterations |-> 0],
   water0 |-> [x |-> 5, y |-> 0, wiggleAxis |-> "y", wiggleTravel |-> 2,
               wiggleIterations |-> 1]]

ToolNames == {"color0", "color1", "water0", "glitter"}

\* ---------------------------------------------------------- arithmetic helpers
Abs(n) == IF n < 0 THEN -n ELSE n

Max(a, b) == IF a > b THEN a ELSE b

\* Math.round(num / den) for den > 0: halves round towards +Infinity.
JsRound(num, den) == (2 * num + den) \div (2 * den)

\* Bisection for floor(sqrt(n)) between lo and hi.
ISqrtIn[n \in Nat, lo \in Nat, hi \in Nat] ==
  IF lo >= hi THEN lo
  ELSE LET mid == (lo + hi + 1) \div 2
       IN IF mid * mid <= n THEN ISqrtIn[n, mid, hi] ELSE ISqrtIn[n, lo, mid - 1]

\* floor(sqrt(n)).
ISqrt(n) == ISqrtIn[n, 0, 46340]

\* ------------------------------------------------------------------ pen state
\* pen.state is a number from 0 to 1 (in thousandths) or a preset name.
NumState(v) == [named |-> FALSE, name |-> "", v |-> v]

NamedState(s) == [named |-> TRUE, name |-> s, v |-> 0]

\* JavaScript truthiness of pen.state: a non-empty string, or a non-zero number.
StateTruthy(st) == IF st.named THEN st.name # "" ELSE st.v # 0

\* The claim's notion of a raised pen: the 'up' preset or 0.
Raised(st) == IF st.named THEN st.name = "up" ELSE st.v = 0

InitPen ==
  [x |-> 0, y |-> 0, state |-> NumState(0), height |-> 0, busy |-> FALSE,
   tool |-> "color0", lastDuration |-> 0, distanceCounter |-> 0, simulation |-> 0]

\* simulationModeInit (lines 792-795).
SimulationModeInit(p) == [p EXCEPT !.simulation = 1]

\* ------------------------------------------------------------ serial boundary
Cmd(op, a, b, c) == [op |-> op, a |-> a, b |-> b, c |-> c]

\* Mutant: the simulation flag is not looked at before writing.
SerialWritesMut(sim, port) == port

\* serialCommand writes only with a port to write to and simulation off.
SerialWrites(sim, port) == port /\ sim = 0

\* Mutant: a simulated command reports failure to its callback.
SerialDataMut(sim, port) == sim = 0

\* What serialCommand passes to its callback.
SerialData(sim, port) == TRUE

\* One serialCommand call: the command and whether it reached serialPort.write.
SerialCommand(sim, port, cmd) ==
  [cmd |-> cmd, sim |-> sim, written |-> SerialWrites(sim, port)]

\* ------------------------------------------------------------------ setHeight
\* The servo value before rounding, as num / 100000: pct10 is the percentage in
\* tenths, fullRange says whether the whole [min, max] range is used.
ServoRange == ServoMax - ServoMin

CompressedRange100 == (PresetUp - PresetPaint) * ServoRange

\* Mutant: the range is not recomputed for the compressed span (line 576).
HeightRange100Mut(fullRange) == 100 * ServoRange

HeightRange100(fullRange) ==
  IF fullRange THEN 100 * ServoRange ELSE CompressedRange100

HeightMin100(fullRange) ==
  IF fullRange THEN 100 * ServoMin ELSE PresetPaint * ServoRange + 100 * ServoMin

ClampPct10(pct10) == IF pct10 > 1000 THEN 1000 ELSE IF pct10 < 0 THEN 0 ELSE pct10

\* Lines 553-584: the state value and the servo value of a height input.
ResolveHeight(h) ==
  LET named == h.named
      known == named /\ h.name \in DOMAIN Presets
      frac == IF Abs(h.v) > 1000 THEN 1000 ELSE Abs(h.v)
      stateValue == IF named
                    THEN (IF known THEN NamedState(h.name) ELSE NamedState("up"))
                    ELSE NumState(frac)
      pct10 == IF named
               THEN (IF known THEN 10 * Presets[h.name] ELSE 10 * Presets.up)
               ELSE 1000 - frac
      num == ClampPct10(pct10) * HeightRange100(named) + 1000 * HeightMin100(named)
  IN [stateValue |-> stateValue, height |-> JsRound(num, 100000)]

\* Lines 587-591: the duration of the servo move, pro-rated once a height is set.
ProRateDuration(oldHeight, newHeight, servoDuration) ==
  IF oldHeight # 0
  THEN JsRound(Abs(newHeight - oldHeight) * servoDuration, ServoRange) + 1
  ELSE servoDuration

\* setHeight(height, callback): the pen afterwards, the commands issued and the
\* delay of the callback's timer.
SetHeight(p, servoDuration, port, h, hasCallback) ==
  LET r == ResolveHeight(h)
      dur == ProRateDuration(p.height, r.height, servoDuration)
      sim == p.simulation
      data == SerialData(sim, port)
      p1 == [p EXCEPT !.height = r.height]
      p2 == IF data THEN [p1 EXCEPT !.state = r.stateValue] ELSE p1
      cmds == <<SerialCommand(sim, port, Cmd("SC", 5, r.height, 0)),
                SerialCommand(sim, port, Cmd("SP", 0, 0, 0))>>
              \o (IF hasCallback
                  THEN <<SerialCommand(sim, port, Cmd("SM", dur, 0, 0))>>
                  ELSE <<>>)
  IN [pen |-> p2, cmds |-> cmds, data |-> data,
      delay |-> Max(dur - BufferLatencyOffset, 0)]

\* ----------------------------------------------------------------- movePenAbs
Point(x, y) == [x |-> x, y |-> y]

IsNaN(v) == v = NaN

ClampTo(v, hi) == IF v > hi THEN hi ELSE IF v < 0 THEN 0 ELSE v

\* Mutant: the target is not clamped.
ClampPointMut(point) == point

\* Lines 654-659: the target clamped into the maximum area.
ClampPoint(point) ==
  Point(ClampTo(point.x, MaxAreaWidth * PosDen), ClampTo(point.y, MaxAreaHeight * PosDen))

\* Lines 661-664: the integer step delta.
Change(point, p) ==
  Point(JsRound(point.x - p.x, PosDen), JsRound(point.y - p.y, PosDen))

\* Line 672, in 1/DistDen steps.
Distance(change) ==
  ISqrt((change.x * change.x + change.y * change.y) * DistDen * DistDen)

\* Line 673.
Speed(st) == IF StateTruthy(st) THEN SpeedDrawing ELSE SpeedMoving

\* Line 674: Math.abs(Math.round(distance / speed * 1000)).
RawDuration(change, speed) ==
  (ISqrt((change.x * change.x + change.y * change.y) * 4000000) + speed)
    \div (2 * speed)

\* Lines 674-677.
Duration(change, speed) ==
  LET d == RawDuration(change, speed) IN IF d = 0 THEN 1 ELSE d

\* Lines 685-695: the wire-level steps.
WireChange(change) ==
  LET cx == IF InvertAxisX THEN -change.x ELSE change.x
      cy == IF InvertAxisY THEN -change.y ELSE change.y
  IN IF SwapMotors THEN Point(cy, cx) ELSE Point(cx, cy)

\* Mutant: a move without a change is sent to the board like any other.
MovePenAbsMut(p, port, point) ==
  IF IsNaN(point.x) \/ IsNaN(point.y)
  THEN [pen |-> p, cmds |-> <<>>, distance |-> 0, outcome |-> "invalid",
        data |-> FALSE, delay |-> 0]
  ELSE
    LET target == ClampPoint(point)
        change == Change(target, p)
        duration == Duration(change, Speed(p.state))
        wire == WireChange(change)
    IN [pen |-> [p EXCEPT !.lastDuration = duration,
                          !.x = target.x, !.y = target.y],
        cmds |-> <<SerialCommand(p.simulation, port,
                                 Cmd("SM", duration, wire.x, wire.y))>>,
        distance |-> Distance(change),
        outcome |-> "moved",
        data |-> SerialData(p.simulation, port),
        delay |-> Max(duration - BufferLatencyOffset, 0)]

\* movePenAbs(point, callback, immediate): outcome "invalid" calls back false at
\* once, "nochange" calls back true at once, "moved" issues the SM command and
\* calls back after the pacing delay (or at once when immediate).
MovePenAbs(p, port, point) ==
  IF IsNaN(point.x) \/ IsNaN(point.y)
  THEN [pen |-> p, cmds |-> <<>>, distance |-> 0, outcome |-> "invalid",
        data |-> FALSE, delay |-> 0]
  ELSE
    LET target == ClampPoint(point)
        change == Change(target, p)
    IN IF change.x = 0 /\ change.y = 0
       THEN [pen |-> p, cmds |-> <<>>, distance |-> 0, outcome |-> "nochange",
             data |-> TRUE, delay |-> 0]
       ELSE
         LET duration == Duration(change, Speed(p.state))
             wire == WireChange(change)
         IN [pen |-> [p EXCEPT !.lastDuration = duration,
                               !.x = target.x, !.y = target.y],
             cmds |-> <<SerialCommand(p.simulation, port,
                                      Cmd("SM", duration, wire.x, wire.y))>>,
             distance |-> Distance(change),
             outcome |-> "moved",
             data |-> SerialData(p.simulation, port),
             delay |-> Max(duration - BufferLatencyOffset, 0)]

\* ------------------------------------------------------------- request bodies
\* A PUT /v1/pen body: which fields are present and their values.  x and y are
\* percentages of the work area, or NaN for a value isNaN() rejects (a missing
\* y included).
NoBody ==
  [resetCounter |-> FALSE, hasSim |-> FALSE, sim |-> 0, hasState |-> FALSE,
   state |-> NumState(0), hasXY |-> FALSE, x |-> 0, y |-> 0, park |-> FALSE,
   ignoreTimeout |-> FALSE]

StateInputs ==
  {NumState(0), NumState(2500), NumState(-500), NamedState("up"), NamedState("bogus")}

Targets == {Point(50, 50), Point(150, -20), Point(NaN, 50), Point(50, NaN)}

PenBodies ==
  {[NoBody EXCEPT !.resetCounter = TRUE]}
  \cup {[NoBody EXCEPT !.hasSim = TRUE, !.sim = s] : s \in {0, 1}}
  \cup {[NoBody EXCEPT !.hasState = TRUE, !.state = h] : h \in StateInputs}
  \cup {[NoBody EXCEPT !.hasXY = TRUE, !.x = t.x, !.y = t.y] : t \in Targets}
  \cup {[NoBody EXCEPT !.hasXY = TRUE, !.x = 100, !.y = 100, !.ignoreTimeout = TRUE],
        [NoBody EXCEPT !.hasState = TRUE, !.state = NumState(1000),
                       !.hasXY = TRUE, !.x = 50, !.y = 50],
        [NoBody EXCEPT !.hasState = TRUE, !.state = NumState(1000),
                       !.hasXY = TRUE, !.x = NaN, !.y = 50],
        NoBody}

ParkBody == [NoBody EXCEPT !.hasXY = TRUE, !.x = 0, !.y = 0, !.park = TRUE]

\* --------------------------------------------------------------------- setPen
\* Lines 506-511.
ClampPct(v) == IF v > 100 THEN 100 ELSE IF v < 0 THEN 0 ELSE v

\* Lines 514-522, in 1/PosDen steps.
AbsInput(body) ==
  LET ax == ((100 * WorkAreaLeft + ClampPct(body.x) * (MaxAreaWidth - WorkAreaLeft))
               * PosDen) \div 100
      ay == ((100 * WorkAreaTop + ClampPct(body.y) * (MaxAreaHeight - WorkAreaTop))
               * PosDen) \div 100
  IN IF body.park
     THEN Point(ax - WorkAreaLeft * PosDen, ay - WorkAreaTop * PosDen)
     ELSE Point(ax, ay)

\* Mutant: the distance overwrites the counter instead of adding to it.
AccumulateMut(counter, distance) == distance

\* Lines 532-534.
Accumulate(counter, distance) == counter + distance

\* Whether the move's distance is added to the counter (line 532).
Counts(st) == StateTruthy(st)

\* Mutant: a request with a changed state and coordinates changes the height
\* and then moves as well.
SetPenMut(p, servoDuration, port, body) ==
  LET quiet == [pen |-> p, cmds |-> <<>>, next |-> "reply", stat |-> TRUE, delay |-> 0]
  IN
  IF body.resetCounter
  THEN [quiet EXCEPT !.pen = [p EXCEPT !.distanceCounter = 0]]
  ELSE IF body.hasSim
  THEN IF body.sim = p.simulation THEN quiet
       ELSE IF body.sim = 0 THEN [quiet EXCEPT !.next = "connect"]
       ELSE [quiet EXCEPT !.pen = SimulationModeInit(p), !.next = "never"]
  ELSE IF body.hasState /\ body.state # p.state
  THEN LET h == SetHeight(p, servoDuration, port, body.state, TRUE)
           m == MovePenAbs(h.pen, port, AbsInput(body))
       IN IF body.hasXY /\ ~IsNaN(body.x) /\ ~IsNaN(body.y)
          THEN [pen |-> m.pen, cmds |-> h.cmds \o m.cmds, next |-> "timer",
                stat |-> h.data, delay |-> h.delay + m.delay]
          ELSE [pen |-> h.pen, cmds |-> h.cmds, next |-> "timer", stat |-> h.data,
                delay |-> h.delay]
  ELSE IF body.hasXY
  THEN IF IsNaN(body.x) \/ IsNaN(body.y) THEN [quiet EXCEPT !.stat = FALSE]
       ELSE IF body.park /\ p.x = 0 /\ p.y = 0 THEN [quiet EXCEPT !.stat = FALSE]
       ELSE
         LET m == MovePenAbs(p, port, AbsInput(body))
             counted == IF Counts(m.pen.state)
                        THEN [m.pen EXCEPT !.distanceCounter =
                                Accumulate(m.pen.distanceCounter, m.distance)]
                        ELSE m.pen
         IN [pen |-> counted, cmds |-> m.cmds,
             next |-> IF m.outcome = "moved" /\ ~body.ignoreTimeout
                      THEN "timer" ELSE "reply",
             stat |-> m.data, delay |-> m.delay]
  ELSE quiet

\* setPen(inPen, callback).  next says what becomes of the callback:
\*   "reply"   called in this turn with stat;
\*   "timer"   called with stat after delay;
\*   "connect" handed to connectSerial as its complete callback;
\*   "never"   not called at all.
SetPen(p, servoDuration, port, body) ==
  LET quiet == [pen |-> p, cmds |-> <<>>, next |-> "reply", stat |-> TRUE, delay |-> 0]
  IN
  IF body.resetCounter
  THEN [quiet EXCEPT !.pen = [p EXCEPT !.distanceCounter = 0]]
  ELSE IF body.hasSim
  THEN IF body.sim = p.simulation THEN quiet
       ELSE IF body.sim = 0 THEN [quiet EXCEPT !.next = "connect"]
       ELSE [quiet EXCEPT !.pen = SimulationModeInit(p), !.next = "never"]
  ELSE IF body.hasState /\ body.state # p.state
  THEN LET h == SetHeight(p, servoDuration, port, body.state, TRUE)
       IN [pen |-> h.pen, cmds |-> h.cmds, next |-> "timer", stat |-> h.data,
           delay |-> h.delay]
  ELSE IF body.hasXY
  THEN IF IsNaN(body.x) \/ IsNaN(body.y) THEN [quiet EXCEPT !.stat = FALSE]
       ELSE IF body.park /\ p.x = 0 /\ p.y = 0 THEN [quiet EXCEPT !.stat = FALSE]
       ELSE
         LET m == MovePenAbs(p, port, AbsInput(body))
             counted == IF Counts(m.pen.state)
                        THEN [m.pen EXCEPT !.distanceCounter =
                                Accumulate(m.pen.distanceCounter, m.distance)]
                        ELSE m.pen
         IN [pen |-> counted, cmds |-> m.cmds,
             next |-> IF m.outcome = "moved" /\ ~body.ignoreTimeout
                      THEN "timer" ELSE "reply",
             stat |-> m.data, delay |-> m.delay]
  ELSE quiet

\* ---------------------------------------------------------------- tool change
\* Mutant: the tool endpoint does not look the tool up.
ToolKnownMut(name) == TRUE

\* Line 429: whether botConf has the tool.
ToolKnown(name) == name \in DOMAIN Tools

\* botConf.get('tools:' + name): undefined for a name botConf lacks.
ToolProfile(name) ==
  IF name \in DOMAIN Tools THEN Tools[name]
  ELSE [x |-> NaN, y |-> NaN, wiggleAxis |-> "", wiggleTravel |-> 0,
        wiggleIterations |-> 0]

\* Mutant: every tool is lowered to 'paint'.
DownHeightMut(name) == "paint"

\* Line 623: toolName.indexOf('water') != -1, over ToolNames.
DownHeight(name) == IF name \in {"water0"} THEN "wash" ELSE "paint"

ToolPoint(t) ==
  IF IsNaN(t.x) \/ IsNaN(t.y) THEN Point(NaN, NaN)
  ELSE Point(t.x * PosDen, t.y * PosDen)

\* wigglePen's closure: start, i, the toggle of the current _wiggleSlave call,
\* and the positions handed to movePenAbs so far (their number and the points).
NoWiggle ==
  [start |-> Point(0, 0), i |-> 0, toggle |-> TRUE, emitted |-> 0, points |-> <<>>]

\* Mutant: the two-axis pattern starts to the right and alternates horizontal
\* steps on even i with vertical steps on odd i.
WigglePointMut(axis, travel, start, i, toggle) ==
  LET full == travel * PosDen
      half == (travel * PosDen) \div 2
      rot == i % 4
  IN IF axis = "xy"
     THEN IF rot % 2 = 1
          THEN (IF rot = 1 THEN Point(start.x, start.y + half)
                ELSE Point(start.x, start.y - half))
          ELSE (IF rot = 0 THEN Point(start.x + full, start.y)
                ELSE Point(start.x - full, start.y))
     ELSE IF axis = "x"
          THEN Point(start.x + (IF toggle THEN full ELSE -full), start.y)
          ELSE Point(start.x, start.y + (IF toggle THEN full ELSE -full))

\* Lines 725-746: the point of one wiggle step.
WigglePoint(axis, travel, start, i, toggle) ==
  LET full == travel * PosDen
      half == (travel * PosDen) \div 2
      rot == i % 4
  IN IF axis = "xy"
     THEN IF rot % 3 # 0
          THEN (IF toggle THEN Point(start.x, start.y + half)
                ELSE Point(start.x - full, start.y))
          ELSE (IF toggle THEN Point(start.x, start.y - half)
                ELSE Point(start.x + full, start.y))
     ELSE IF axis = "x"
          THEN Point(start.x + (IF toggle THEN full ELSE -full), start.y)
          ELSE Point(start.x, start.y + (IF toggle THEN full ELSE -full))

\* Line 751: whether another wiggle step follows once i has been incremented.
WiggleAgain(i, iterations) == i <= iterations

RECURSIVE WiggleSlave(_, _, _, _, _)
RECURSIVE WiggleNext(_, _, _, _, _)

\* _wiggleSlave(toggle): one step; a move that changes nothing calls back in the
\* same turn, so the pattern goes on until a move is paced or the pattern ends.
\* k is "wiggleStep" (a step's timer is pending), "wiggleBack" (the return's
\* timer is pending) or "wiggleDone" (wigglePen's callback ran in this turn).
WiggleSlave(p, port, t, w, cmds) ==
  CHOOSE r \in
    {IF m.outcome = "moved"
     THEN [pen |-> m.pen, cmds |-> cmds \o m.cmds, k |-> "wiggleStep", w |-> w1,
           delay |-> m.delay]
     ELSE WiggleNext(p, port, t, w1, cmds) :
       <<m, w1>> \in
         {<<MovePenAbs(p, port, point),
            [w EXCEPT !.emitted = @ + 1, !.points = Append(@, point)]>> :
            point \in {WigglePoint(t.wiggleAxis, t.wiggleTravel, w.start, w.i,
                                   w.toggle)}}} : TRUE

\* The callback of a wiggle step (lines 748-756).
WiggleNext(p, port, t, w, cmds) ==
  CHOOSE r \in
    {IF WiggleAgain(w1.i, t.wiggleIterations)
     THEN WiggleSlave(p, port, t, w1, cmds)
     ELSE [pen |-> m.pen, cmds |-> cmds \o m.cmds,
           k |-> IF m.outcome = "moved" THEN "wiggleBack" ELSE "wiggleDone",
           w |-> [w1 EXCEPT !.toggle = w.toggle, !.emitted = @ + 1,
                            !.points = Append(@, w.start)],
           delay |-> m.delay] :
       <<m, w1>> \in {<<MovePenAbs(p, port, w.start),
                        [w EXCEPT !.i = @ + 1, !.toggle = ~w.toggle]>>}} : TRUE

\* ----------------------------------------------------------------- connection
\* servo:rate and speed:precision, sent by sendBotConfig.
ServoRate == 0
SpeedPrecision == 1

\* require("serialport").list results: comName, whether pnpId holds the
\* controller fragment, whether manufacturer holds the manufacturer fragment.
Port(name, pnp, man) == [comName |-> name, pnp |-> pnp, man |-> man]

PortLists ==
  {<<Port("ttyS0", FALSE, FALSE)>>,
   <<Port("ttyACM0", TRUE, FALSE), Port("ttyACM1", FALSE, TRUE)>>}

IsAuto(path) == path = "" \/ path = "{auto}"

RECURSIVE SelectPath(_, _, _, _)
\* Lines 813-822: the loop over the ports.
SelectPath(ports, i, path, autoDetect) ==
  IF i > Len(ports) THEN path
  ELSE SelectPath(ports, i + 1,
                  IF (ports[i].pnp \/ ports[i].man) /\ autoDetect
                  THEN ports[i].comName ELSE path,
                  autoDetect)

\* sendBotConfig.
SendBotConfig(sim, port) ==
  <<SerialCommand(sim, port, Cmd("SC", 10, ServoRate, 0)),
    SerialCommand(sim, port, Cmd("EM", SpeedPrecision, 0, 0))>>

\* ---------------------------------------------------------------------- state
VARIABLES
  pen,            \* the pen state object
  serialPort,     \* whether serialPort is a port object (FALSE: false)
  serialPath,     \* gConf serialPath
  portHooks,      \* whether a port with the startup connect/disconnect handlers
                  \* is open
  phase,          \* "boot": ports being listed; "opening": port created, its
                  \* open event pending; "ready": the API endpoints are bound;
                  \* "stopped": start() reported an error to the embedding program
  servoDuration,  \* botConf servo:duration
  timers,         \* callbacks pending in timers or in the port listing
  nreq,           \* requests accepted so far
  ntool,          \* tool changes accepted so far
  reconnected,    \* whether serialPort is a port opened by a setPen reconnect
                  \* (it has no open / close handlers) that is still open
  configured,     \* whether sendBotConfig has been written to the port
                  \* serialPort refers to
  listing,        \* the port listing handled in the last turn, if any
  req,            \* the request accepted in the last turn, if any
  res,            \* the response sent in the last turn, if any
  cmds            \* the serialCommand calls of the last turn, in order

vars ==
  <<pen, serialPort, serialPath, portHooks, phase, servoDuration, timers, nreq,
    ntool, reconnected, configured, listing, req, res, cmds>>

NoReq ==
  [id |-> 0, op |-> "", body |-> NoBody, tool |-> "", sim |-> 0, from |-> Point(0, 0)]

NoRes == [id |-> 0, code |-> 0]

Req(op, body, tool) ==
  [id |-> nreq + 1, op |-> op, body |-> body, tool |-> tool,
   sim |-> pen.simulation, from |-> Point(pen.x, pen.y)]

Res(id, code) == [id |-> id, code |-> code]

\* The ports a listing returned and whether a port was opened for them.
NoListing == [listed |-> FALSE, ports |-> <<>>, auto |-> FALSE, opened |-> FALSE]

Listing(ports, auto, opened) ==
  [listed |-> TRUE, ports |-> ports, auto |-> auto, opened |-> opened]

\* A turn in which no port is listed, opened or closed.
NoPortEvent == listing' = NoListing /\ UNCHANGED <<reconnected, configured>>

\* A pending callback: whose request, which one, the data it will pass on, the
\* tool and wiggle closure of a tool change, the success status of a pen
\* request, and the timer's delay.
Cont(id, k, stat, tool, w, okCode, delay) ==
  [id |-> id, k |-> k, stat |-> stat, tool |-> tool, w |-> w, okCode |-> okCode,
   delay |-> delay]

\* The start, standalone (lines 125-138) or through exports.start (lines
\* 142-159): connectSerial has been called, the ports are being listed.
Init ==
  /\ pen = InitPen
  /\ serialPort = FALSE
  /\ serialPath = "{auto}"
  /\ portHooks = FALSE
  /\ phase = "boot"
  /\ servoDuration = DefaultServoDuration
  /\ \E k \in {"listPorts", "listPortsStart"} :
       timers = {Cont(0, k, FALSE, "", NoWiggle, 0, 0)}
  /\ nreq = 0
  /\ ntool = 0
  /\ reconnected = FALSE
  /\ configured = FALSE
  /\ listing = NoListing
  /\ req = NoReq
  /\ res = NoRes
  /\ cmds = <<>>

Accepting == phase = "ready" /\ nreq < MaxRequests

\* -------------------------------------------------------------- HTTP handlers
\* The callback the pen endpoint gives setPen (lines 338-350, 355-363).
PenStatus(stat, okCode) == IF stat THEN okCode ELSE 500

PenOutcome(r, id, okCode) ==
  /\ pen' = r.pen
  /\ timers' = timers \cup
       (IF r.next = "timer"
          THEN {Cont(id, "penDone", r.stat, "", NoWiggle, okCode, r.delay)}
        ELSE IF r.next = "connect"
          THEN {Cont(id, "listPorts", FALSE, "", NoWiggle, okCode, 0)}
        ELSE {})
  /\ res' = IF r.next = "reply" THEN Res(id, PenStatus(r.stat, okCode)) ELSE NoRes

\* PUT /v1/pen.
PutPen(body) ==
  /\ Accepting
  /\ \E r \in {SetPen(pen, servoDuration, serialPort, body)} :
        /\ PenOutcome(r, nreq + 1, IF body.ignoreTimeout THEN 202 ELSE 200)
        /\ cmds' = r.cmds
  /\ req' = Req("setPen", body, "")
  /\ nreq' = nreq + 1
  /\ UNCHANGED ntool
  /\ NoPortEvent
  /\ UNCHANGED <<serialPort, serialPath, portHooks, phase, servoDuration>>

\* DELETE /v1/pen: park.
DeletePen ==
  /\ Accepting
  /\ \E h \in {SetHeight(pen, servoDuration, serialPort, NamedState("up"), FALSE)} :
     \E r \in {SetPen(h.pen, servoDuration, serialPort, ParkBody)} :
        /\ PenOutcome(r, nreq + 1, 200)
        /\ cmds' = h.cmds \o r.cmds
  /\ req' = Req("park", ParkBody, "")
  /\ nreq' = nreq + 1
  /\ UNCHANGED ntool
  /\ NoPortEvent
  /\ UNCHANGED <<serialPort, serialPath, portHooks, phase, servoDuration>>

\* DELETE /v1/motors.
DeleteMotors ==
  /\ Accepting
  /\ cmds' = <<SerialCommand(pen.simulation, serialPort, Cmd("EM", 0, 0, 0))>>
  /\ res' = Res(nreq + 1, IF SerialData(pen.simulation, serialPort) THEN 200 ELSE 500)
  /\ req' = Req("disableMotors", NoBody, "")
  /\ nreq' = nreq + 1
  /\ UNCHANGED ntool
  /\ NoPortEvent
  /\ UNCHANGED <<pen, serialPort, serialPath, portHooks, phase, servoDuration, timers>>

\* PUT /v1/motors with reset = 1.
PutMotorsReset ==
  /\ Accepting
  /\ pen' = [pen EXCEPT !.x = 0, !.y = 0]
  /\ cmds' = <<>>
  /\ res' = Res(nreq + 1, 200)
  /\ req' = Req("motorReset", NoBody, "")
  /\ nreq' = nreq + 1
  /\ UNCHANGED ntool
  /\ NoPortEvent
  /\ UNCHANGED <<serialPort, serialPath, portHooks, phase, servoDuration, timers>>

\* PUT /v1/settings/bot setting servo:duration.
PutSettings(v) ==
  /\ Accepting
  /\ v # servoDuration
  /\ servoDuration' = v
  /\ cmds' = <<>>
  /\ res' = Res(nreq + 1, 200)
  /\ req' = Req("settings", NoBody, "")
  /\ nreq' = nreq + 1
  /\ UNCHANGED ntool
  /\ NoPortEvent
  /\ UNCHANGED <<pen, serialPort, serialPath, portHooks, phase, timers>>

\* PUT /v1/tools/:tool.
PutTool(name) ==
  /\ Accepting
  /\ ntool < MaxToolChanges
  /\ ntool' = ntool + 1
  /\ NoPortEvent
  /\ IF ToolKnown(name)
     THEN \E h \in {SetHeight(pen, servoDuration, serialPort, NamedState("up"), TRUE)} :
             /\ pen' = h.pen
             /\ cmds' = h.cmds
             /\ timers' = timers \cup
                  {Cont(nreq + 1, "toolUp", h.data, name, NoWiggle, 200, h.delay)}
             /\ res' = NoRes
     ELSE /\ res' = Res(nreq + 1, 404)
          /\ cmds' = <<>>
          /\ UNCHANGED <<pen, timers>>
  /\ req' = Req("setTool", NoBody, name)
  /\ nreq' = nreq + 1
  /\ UNCHANGED <<serialPort, serialPath, portHooks, phase, servoDuration>>

\* ------------------------------------------------------------ timer callbacks
\* One turn run by pending callback c: the pen afterwards, the commands issued,
\* the callbacks it leaves pending and the response it sends.
Turn(c, p, cs, conts, r) ==
  /\ pen' = p
  /\ cmds' = cs
  /\ timers' = (timers \ {c}) \cup conts
  /\ res' = r
  /\ req' = NoReq
  /\ NoPortEvent
  /\ UNCHANGED <<serialPort, serialPath, portHooks, phase, servoDuration, nreq, ntool>>

\* The pen endpoint's callback, after the pacing delay.
FirePenDone(c) ==
  /\ c \in timers /\ c.k = "penDone"
  /\ Turn(c, pen, <<>>, {}, Res(c.id, PenStatus(c.stat, c.okCode)))

\* setTool, lines 630-631: the pen goes down on the tool; data is the result of
\* the move to the tool.
ToolLower(c, p, cs, data) ==
  \E h \in {SetHeight(p, servoDuration, serialPort, NamedState(DownHeight(c.tool)), TRUE)} :
     Turn(c, h.pen, cs \o h.cmds,
          {Cont(c.id, "toolDown", data, c.tool, NoWiggle, 200, h.delay)}, NoRes)

\* setTool, lines 633-636: the pen goes back up once the wiggle is over.
ToolRaise(c, p, cs, w) ==
  \E h \in {SetHeight(p, servoDuration, serialPort, NamedState("up"), TRUE)} :
     Turn(c, h.pen, cs \o h.cmds,
          {Cont(c.id, "toolDone", c.stat, c.tool, w, 200, h.delay)}, NoRes)

\* What a turn of the wiggle leaves behind.
WiggleOutcome(c, r) ==
  IF r.k = "wiggleDone" THEN ToolRaise(c, r.pen, r.cmds, r.w)
  ELSE Turn(c, r.pen, r.cmds,
            {Cont(c.id, r.k, c.stat, c.tool, r.w, 200, r.delay)}, NoRes)

\* setTool, lines 626-628: the pen is up, move to the tool.
FireToolUp(c) ==
  /\ c \in timers /\ c.k = "toolUp"
  /\ \E m \in {MovePenAbs(pen, serialPort, ToolPoint(ToolProfile(c.tool)))} :
       IF m.outcome = "moved"
       THEN Turn(c, m.pen, m.cmds,
                 {Cont(c.id, "toolAt", m.data, c.tool, NoWiggle, 200, m.delay)}, NoRes)
       ELSE ToolLower(c, m.pen, m.cmds, m.data)

\* The move to the tool is over.
FireToolAt(c) ==
  /\ c \in timers /\ c.k = "toolAt"
  /\ ToolLower(c, pen, <<>>, c.stat)

\* The pen is down: wigglePen starts from the current position.
FireToolDown(c) ==
  /\ c \in timers /\ c.k = "toolDown"
  /\ \E r \in {WiggleSlave(pen, serialPort, ToolProfile(c.tool),
                           [NoWiggle EXCEPT !.start = Point(pen.x, pen.y)], <<>>)} :
       WiggleOutcome(c, r)

\* A wiggle step is over.
FireWiggleStep(c) ==
  /\ c \in timers /\ c.k = "wiggleStep"
  /\ \E r \in {WiggleNext(pen, serialPort, ToolProfile(c.tool), c.w, <<>>)} :
       WiggleOutcome(c, r)

\* The return to the start is over.
FireWiggleBack(c) ==
  /\ c \in timers /\ c.k = "wiggleBack"
  /\ ToolRaise(c, pen, <<>>, c.w)

\* The tool endpoint's callback (lines 430-435): the result of setTool is not
\* looked at.
FireToolDone(c) ==
  /\ c \in timers /\ c.k = "toolDone"
  /\ Turn(c, [pen EXCEPT !.tool = c.tool], <<>>, {}, Res(c.id, 200))

\* ----------------------------------------------------------------- connection
\* connectSerial's port listing returns, at the standalone start (lines
\* 127-138): on error simulationModeInit and serialPortReadyCallback, on success
\* the port's open event is awaited.
StartupListed(c, ports, opens) ==
  /\ c \in timers /\ c.k = "listPorts" /\ c.id = 0
  /\ LET path == SelectPath(ports, 1, serialPath, IsAuto(serialPath))
         ok == ~IsAuto(path) /\ opens
     IN /\ serialPath' = path
        /\ serialPort' = ok
        /\ portHooks' = ok
        /\ pen' = IF ok THEN [pen EXCEPT !.simulation = 0] ELSE SimulationModeInit(pen)
        /\ phase' = IF ok THEN "opening" ELSE "ready"
        /\ cmds' = IF ok THEN <<>> ELSE SendBotConfig(1, FALSE)
        /\ listing' = Listing(ports, IsAuto(serialPath), ok)
  /\ timers' = timers \ {c}
  /\ reconnected' = FALSE
  /\ configured' = FALSE
  /\ res' = NoRes
  /\ req' = NoReq
  /\ UNCHANGED <<servoDuration, nreq, ntool>>

\* The port listing of exports.start (lines 142-159): on error only the
\* embedding program's error callback is called, on success the port's open
\* event is awaited.
ModuleListed(c, ports, opens) ==
  /\ c \in timers /\ c.k = "listPortsStart"
  /\ LET path == SelectPath(ports, 1, serialPath, IsAuto(serialPath))
         ok == ~IsAuto(path) /\ opens
     IN /\ serialPath' = path
        /\ serialPort' = ok
        /\ portHooks' = ok
        /\ pen' = IF ok THEN [pen EXCEPT !.simulation = 0] ELSE pen
        /\ phase' = IF ok THEN "opening" ELSE "stopped"
        /\ listing' = Listing(ports, IsAuto(serialPath), ok)
  /\ cmds' = <<>>
  /\ timers' = timers \ {c}
  /\ reconnected' = FALSE
  /\ configured' = FALSE
  /\ res' = NoRes
  /\ req' = NoReq
  /\ UNCHANGED <<servoDuration, nreq, ntool>>

\* The port listing of a reconnect asked for through setPen (line 478): only
\* the complete callback is given, and it is called with stat, which is false.
\* The new port gets no open and no close handler; a port opened at the start
\* keeps its handlers.
ReconnectListed(c, ports, opens) ==
  /\ c \in timers /\ c.k = "listPorts" /\ c.id > 0
  /\ LET path == SelectPath(ports, 1, serialPath, IsAuto(serialPath))
         ok == ~IsAuto(path) /\ opens
     IN /\ serialPath' = path
        /\ serialPort' = (IF ok THEN TRUE ELSE serialPort)
        /\ reconnected' = (IF ok THEN TRUE ELSE reconnected)
        /\ configured' = (IF ok THEN FALSE ELSE configured)
        /\ pen' = IF ok THEN [pen EXCEPT !.simulation = 0] ELSE pen
        /\ listing' = Listing(ports, IsAuto(serialPath), ok)
  /\ timers' = timers \ {c}
  /\ cmds' = <<>>
  /\ res' = Res(c.id, PenStatus(FALSE, c.okCode))
  /\ req' = NoReq
  /\ UNCHANGED <<portHooks, phase, servoDuration, nreq, ntool>>

\* The open event of the port opened at the start: serialPortReadyCallback.
SerialOpen ==
  /\ phase = "opening"
  /\ phase' = "ready"
  /\ cmds' = SendBotConfig(pen.simulation, serialPort)
  /\ configured' = SerialWrites(pen.simulation, serialPort)
  /\ listing' = NoListing
  /\ res' = NoRes
  /\ req' = NoReq
  /\ UNCHANGED <<pen, serialPort, serialPath, portHooks, servoDuration, timers, nreq,
                 ntool, reconnected>>

\* The close event of the port opened at the start: serialPortCloseCallback.
SerialClose ==
  /\ phase = "ready" /\ serialPort /\ portHooks
  /\ serialPort' = FALSE
  /\ portHooks' = FALSE
  /\ serialPath' = ""
  /\ pen' = SimulationModeInit(pen)
  /\ reconnected' = FALSE
  /\ configured' = FALSE
  /\ listing' = NoListing
  /\ cmds' = <<>>
  /\ res' = NoRes
  /\ req' = NoReq
  /\ UNCHANGED <<phase, servoDuration, timers, nreq, ntool>>

\* The close event of a port opened by a reconnect: line 836 registered no
\* handler for it (options.disconnect is undefined), so no code runs.
SerialCloseUnhandled ==
  /\ phase = "ready" /\ serialPort /\ reconnected
  /\ reconnected' = FALSE
  /\ listing' = NoListing
  /\ cmds' = <<>>
  /\ res' = NoRes
  /\ req' = NoReq
  /\ UNCHANGED <<pen, serialPort, serialPath, portHooks, phase, servoDuration, timers,
                 nreq, ntool, configured>>

\* exports.continueSimulation (line 168), called by the embedding program after
\* start() reported an error.
ContinueSimulation ==
  /\ phase = "stopped" /\ pen.simulation = 0
  /\ pen' = SimulationModeInit(pen)
  /\ listing' = NoListing
  /\ cmds' = <<>>
  /\ res' = NoRes
  /\ req' = NoReq
  /\ UNCHANGED <<serialPort, serialPath, portHooks, phase, servoDuration, timers, nreq,
                 ntool, reconnected, configured>>

\* exports.serialReadyInit (line 171), called by the embedding program after
\* start() reported an error: serialPortReadyCallback.
SerialReadyInit ==
  /\ phase = "stopped"
  /\ phase' = "ready"
  /\ cmds' = SendBotConfig(pen.simulation, serialPort)
  /\ configured' = SerialWrites(pen.simulation, serialPort)
  /\ listing' = NoListing
  /\ res' = NoRes
  /\ req' = NoReq
  /\ UNCHANGED <<pen, serialPort, serialPath, portHooks, servoDuration, timers, nreq,
                 ntool, reconnected>>

\* -------------------------------------------------------------- specification
TimerFires ==
  \/ \E c \in timers : FirePenDone(c)
  \/ \E c \in timers : FireToolUp(c)
  \/ \E c \in timers : FireToolAt(c)
  \/ \E c \in timers : FireToolDown(c)
  \/ \E c \in timers : FireWiggleStep(c)
  \/ \E c \in timers : FireWiggleBack(c)
  \/ \E c \in timers : FireToolDone(c)

ListingReturns ==
  \/ \E c \in timers : \E ports \in PortLists : \E opens \in BOOLEAN :
       StartupListed(c, ports, opens)
  \/ \E c \in timers : \E ports \in PortLists : \E opens \in BOOLEAN :
       ModuleListed(c, ports, opens)
  \/ \E c \in timers : \E ports \in PortLists : \E opens \in BOOLEAN :
       ReconnectListed(c, ports, opens)

Requests ==
  \/ \E body \in PenBodies : PutPen(body)
  \/ DeletePen
  \/ DeleteMotors
  \/ PutMotorsReset
  \/ \E v \in ServoDurations : PutSettings(v)
  \/ \E name \in ToolNames : PutTool(name)

Next ==
  \/ Requests
  \/ TimerFires
  \/ ListingReturns
  \/ SerialOpen
  \/ SerialClose
  \/ SerialCloseUnhandled
  \/ ContinueSimulation
  \/ SerialReadyInit

Spec == Init /\ [][Next]_vars

\* The same machine with fewer requests, for the properties of what eventually
\* happens: timers expire and the port listing returns.
LiveNext ==
  \/ nreq < MaxLiveRequests /\ Requests
  \/ TimerFires
  \/ ListingReturns
  \/ SerialOpen
  \/ SerialClose
  \/ SerialCloseUnhandled
  \/ ContinueSimulation
  \/ SerialReadyInit

LiveSpec ==
  Init /\ [][LiveNext]_vars /\ WF_vars(TimerFires) /\ WF_vars(ListingReturns)

\* ===================================================================== claims
MotionKinds ==
  {"penDone", "toolUp", "toolAt", "toolDown", "wiggleStep", "wiggleBack", "toolDone"}

\* The operations accepted whose completion callback has not run yet.
InFlight == {c.id : c \in {t \in timers : t.k \in MotionKinds}}

Succeeded(r) == r.code = 200 \/ r.code = 202

HeightInRange(h) == ServoMin <= h /\ h <= ServoMax

\* C1: while a pen, height, tool-change or park operation is in flight (its
\* completion callback has not run), accepting another such operation neither
\* writes a command to the transport nor changes the pen state.
C1_NoInterleaving ==
  [][(/\ InFlight # {}
      /\ nreq' = nreq + 1
      /\ req'.op \in {"setPen", "park", "setTool"})
     => (/\ pen' = pen
         /\ \A i \in DOMAIN cmds' : ~cmds'[i].written)]_vars

\* C2: a command issued while pen.simulation is set is never written to the
\* serial port.
C2_NoWriteInSimulation ==
  \A i \in DOMAIN cmds : cmds[i].sim = 1 => ~cmds[i].written

\* A command was issued in simulation while a serial port object exists.
C2_Witness ==
  /\ serialPort
  /\ \E i \in DOMAIN cmds : cmds[i].sim = 1 /\ cmds[i].cmd.op = "SM"

\* C3 as stated: with simulation on, every setPen request and every park that
\* is answered is answered with success.
C3_EverySimOpSucceeds ==
  (/\ req.id # 0
   /\ req.op \in {"setPen", "park"}
   /\ req.sim = 1
   /\ res.id = req.id)
  => Succeeded(res)

\* The requests the code completes with success: a tool change to a known tool,
\* disabling the motors, a park from a position other than the origin, and a
\* setPen whose coordinates, if any, are numbers and whose simulation field, if
\* any, asks for simulation.
SucceedsInSimulation(r) ==
  /\ r.sim = 1
  /\ \/ r.op = "disableMotors"
     \/ r.op = "setTool" /\ r.tool \in DOMAIN Tools
     \/ r.op = "park" /\ r.from # Point(0, 0)
     \/ /\ r.op = "setPen"
        /\ r.body.hasSim => r.body.sim = 1
        /\ r.body.hasXY => ~IsNaN(r.body.x) /\ ~IsNaN(r.body.y)

\* C3, amended: with simulation on, each of these requests is eventually
\* answered, and with success.
C3_SimOpsEventuallySucceed ==
  \A id \in 1..MaxLiveRequests :
    (req.id = id /\ SucceedsInSimulation(req)) ~> (res.id = id /\ Succeeded(res))

\* A timer callback answered a request with success while simulating.
C3_Witness ==
  /\ pen.simulation = 1
  /\ req.id = 0
  /\ res.id # 0
  /\ Succeeded(res)
  /\ pen.tool = "water0"

\* C4: a move made by the pen endpoint while the pen is raised (state 'up' or
\* 0) leaves distanceCounter unchanged.
C4_RaisedMoveNotCounted ==
  [][(/\ nreq' = nreq + 1
      /\ req'.op \in {"setPen", "park"}
      /\ Raised(pen'.state)
      /\ (pen'.x # pen.x \/ pen'.y # pen.y))
     => pen'.distanceCounter = pen.distanceCounter]_vars

\* C5 as stated: no step makes distanceCounter smaller.
C5_Monotonic == [][pen'.distanceCounter >= pen.distanceCounter]_vars

\* C5, amended: no step makes distanceCounter smaller, except a setPen request
\* with resetCounter, which sets it to 0.
C5_MonotonicExceptReset ==
  [][\/ pen'.distanceCounter >= pen.distanceCounter
     \/ /\ nreq' = nreq + 1
        /\ req'.op = "setPen"
        /\ req'.body.resetCounter
        /\ pen'.distanceCounter = 0]_vars

\* A setPen move has just been added to a counter that was not 0.
C5_Witness ==
  /\ req.op = "setPen"
  /\ req.body.hasXY
  /\ pen.distanceCounter > Distance(Change(Point(pen.x, pen.y), req.from))
  /\ Distance(Change(Point(pen.x, pen.y), req.from)) > 0

\* C6: the pen position stays within the maximum area.
C6_PositionInArea ==
  /\ 0 <= pen.x /\ pen.x <= MaxAreaWidth * PosDen
  /\ 0 <= pen.y /\ pen.y <= MaxAreaHeight * PosDen

\* The move to a tool whose configured position lies beyond the area has been
\* made.
C6_Witness ==
  \E c \in timers :
    /\ c.k = "toolAt"
    /\ ToolProfile(c.tool).x > MaxAreaWidth
    /\ pen.x = MaxAreaWidth * PosDen

\* C7 as stated: pen.height is within [servo.min, servo.max] in every state.
C7_HeightInRange == HeightInRange(pen.height)

\* C7, amended: pen.height is 0 (its initial value) or within
\* [servo.min, servo.max], and every setHeight call (a turn that issues
\* SC,5,<height>) stores a height within that range.
C7_HeightInRangeOnceSet ==
  /\ [](pen.height = 0 \/ HeightInRange(pen.height))
  /\ [][(\E i \in DOMAIN cmds' : cmds'[i].cmd.op = "SC" /\ cmds'[i].cmd.a = 5)
        => HeightInRange(pen'.height)]_vars

\* setHeight has stored the height of a numeric fraction strictly between the
\* 'paint' and 'up' calibration points.
C7_Witness ==
  /\ pen.state = NumState(500)
  /\ HeightInRange(pen.height)
  /\ \E i \in DOMAIN cmds : cmds[i].cmd = Cmd("SC", 5, pen.height, 0)

\* C8: every SM command written to the transport has a duration of at least 1.
C8_SMDurationAtLeastOne ==
  \A i \in DOMAIN cmds :
    (cmds[i].written /\ cmds[i].cmd.op = "SM") => cmds[i].cmd.a >= 1

\* C9: when the wiggle of a tool change with iterations = N is over, N + 1
\* positions have been handed to movePenAbs.
C9_WiggleEmitsNPlusOne ==
  \A c \in timers :
    c.k \in {"wiggleBack", "toolDone"}
      => c.w.emitted = ToolProfile(c.tool).wiggleIterations + 1

C11_CloseEntersSimulation ==
  [][(/\ pen.simulation = 0
      /\ serialPort
      /\ \/ portHooks /\ ~portHooks'
         \/ reconnected /\ ~reconnected')
     => (/\ pen'.simulation = 1
         /\ ~serialPort'
         /\ serialPath' = "")]_vars

\* The callbacks of a tool change.
ToolSteps == {"toolUp", "toolAt", "toolDown", "wiggleStep", "wiggleBack", "toolDone"}

\* The move to the tool, made by callback c, fails.
MoveToToolFails(c) ==
  /\ c.k = "toolUp"
  /\ MovePenAbs(pen, serialPort, ToolPoint(ToolProfile(c.tool))).outcome = "invalid"

\* C12: once a step of a tool change has failed, the turn in which it fails and
\* the later callbacks of that tool change issue no command, do not update
\* pen.tool and do not answer the request with success.
C12_FailedStepAborts ==
  [][\A c \in timers :
       (/\ c.k \in ToolSteps
        /\ c \notin timers'
        /\ (~c.stat \/ MoveToToolFails(c)))
       => (/\ cmds' = <<>>
           /\ pen'.tool = pen.tool
           /\ ~Succeeded(res'))]_vars

\* The callback that may follow each callback of a tool change: raise, move to
\* the tool, lower, wiggle steps, return to the start of the wiggle, raise.
ToolOrder ==
  {<<"toolUp", "toolAt">>, <<"toolUp", "toolDown">>, <<"toolAt", "toolDown">>,
   <<"toolDown", "wiggleStep">>, <<"toolDown", "wiggleBack">>,
   <<"toolDown", "toolDone">>, <<"wiggleStep", "wiggleStep">>,
   <<"wiggleStep", "wiggleBack">>, <<"wiggleStep", "toolDone">>,
   <<"wiggleBack", "toolDone">>}

\* C13: the steps of a tool change are started in the order raise, move to the
\* tool's position, lower ('wash' for a water tool, 'paint' otherwise), wiggle,
\* raise, each by the callback of the step before it, and pen.tool is set only
\* by the callback of the final raise, which answers the request.
C13_ToolChangeOrder ==
  [][/\ \A c \in timers' \ timers :
          c.k \in ToolSteps =>
            \/ /\ c.k = "toolUp"
               /\ nreq' = nreq + 1 /\ req'.op = "setTool" /\ req'.tool = c.tool
               /\ pen'.state = NamedState("up")
            \/ \E b \in timers \ timers' :
                 b.id = c.id /\ b.tool = c.tool /\ <<b.k, c.k>> \in ToolOrder
     /\ \A c \in timers' \ timers :
          /\ c.k = "toolAt" =>
               Point(pen'.x, pen'.y) = ClampPoint(ToolPoint(Tools[c.tool]))
          /\ c.k = "toolDown" =>
               pen'.state = NamedState(IF c.tool = "water0" THEN "wash" ELSE "paint")
          /\ c.k = "toolDone" => pen'.state = NamedState("up")
     /\ pen'.tool # pen.tool =>
          \E b \in timers \ timers' :
            /\ b.k = "toolDone" /\ b.tool = pen'.tool
            /\ res' = Res(b.id, 200)]_vars

\* A change to the water tool has gone through all its steps while connected.
C13_Witness ==
  /\ pen.simulation = 0
  /\ serialPort
  /\ pen.tool = "water0"
  /\ res.id # 0 /\ res.code = 200
  /\ req.id = 0

\* The target of request r has a coordinate that is not a finite number: the
\* x / y of a setPen body, or the configured position of the tool asked for.
TargetNotANumber(r) ==
  \/ r.op = "setPen" /\ r.body.hasXY /\ (IsNaN(r.body.x) \/ IsNaN(r.body.y))
  \/ /\ r.op = "setTool" /\ r.tool \in DOMAIN Tools
     /\ (IsNaN(Tools[r.tool].x) \/ IsNaN(Tools[r.tool].y))

\* C14: a request whose target has a coordinate that is not a finite number is
\* answered with failure in the turn that accepts it, issues no command and
\* leaves the pen state as it was, whatever else the request carries.
C14_BadTargetFails ==
  [][(nreq' = nreq + 1 /\ TargetNotANumber(req'))
     => (/\ pen' = pen
         /\ cmds' = <<>>
         /\ res'.id = req'.id /\ ~Succeeded(res'))]_vars

\* A height or motion command: SC,5 (servo position), SP (pen trigger), SM (move).
IsMotion(cmd) == cmd.op \in {"SM", "SP"} \/ (cmd.op = "SC" /\ cmd.a = 5)

\* C15: a height or motion command is written only to a port to which the
\* handshake (SC,10 then EM) has been written since it was opened, whether the
\* port was opened at the start or by a reconnect.
C15_HandshakeBeforeMotion ==
  \A i \in DOMAIN cmds : (cmds[i].written /\ IsMotion(cmds[i].cmd)) => configured

\* C16: after every connection attempt that ends with no matching device or
\* with an open failure (standalone start, start(), reconnect), pen.simulation
\* is on.
C16_FailedConnectSimulates ==
  [][(listing'.listed /\ ~listing'.opened) => pen'.simulation = 1]_vars

\* The positions, in a listing, of the ports that match the controller by pnpId
\* or by manufacturer.
Matching(ports) == {i \in DOMAIN ports : ports[i].pnp \/ ports[i].man}

\* C17: a listing handled with no explicit path configured selects the first
\* matching port in enumeration order; with an explicit path configured the
\* path is left as it is.
C17_FirstMatchSelected ==
  [][listing'.listed =>
       IF listing'.auto
       THEN Matching(listing'.ports) # {} =>
              \E i \in Matching(listing'.ports) :
                /\ \A j \in Matching(listing'.ports) : i <= j
                /\ serialPath' = listing'.ports[i].comName
       ELSE serialPath' = serialPath]_vars

\* C18: a move command carries the duration computed with speed:moving when
\* the pen is raised (state 0 or 'up') and with speed:drawing otherwise.  A
\* turn never changes pen.state after issuing a move, so pen.state is the state
\* the move was made in.
C18_SpeedByPenState ==
  \A i \in DOMAIN cmds :
    (cmds[i].cmd.op = "SM" /\ (cmds[i].cmd.b # 0 \/ cmds[i].cmd.c # 0))
      => cmds[i].cmd.a =
           Duration(Point(cmds[i].cmd.b, cmds[i].cmd.c),
                    IF Raised(pen.state) THEN SpeedMoving ELSE SpeedDrawing)

\* C19: every setHeight call issues SC,5,<height>, then SP,0, then a
\* zero-distance SM: in the commands of a turn each SP,0 follows an SC,5 and is
\* followed by an SM with no steps, so that a later move comes after that SM.
C19_HeightIssuesThreeCommands ==
  \A i \in DOMAIN cmds :
    cmds[i].cmd.op = "SP" =>
      /\ i > 1 /\ cmds[i - 1].cmd.op = "SC" /\ cmds[i - 1].cmd.a = 5
      /\ i < Len(cmds)
      /\ cmds[i + 1].cmd.op = "SM" /\ cmds[i + 1].cmd.b = 0 /\ cmds[i + 1].cmd.c = 0

\* The steps of a two-axis pattern recorded in a pending callback: step i is
\* the (i+1)-th position handed to movePenAbs, the return to the start excluded.
XYSteps(c) ==
  IF c.tool \in DOMAIN Tools /\ ToolProfile(c.tool).wiggleAxis = "xy"
  THEN {i \in 0..ToolProfile(c.tool).wiggleIterations : i + 1 <= Len(c.w.points)}
  ELSE {}

\* The offset of a recorded step from the start point, in position units.
StepOffset(c, i) ==
  Point(c.w.points[i + 1].x - c.w.start.x, c.w.points[i + 1].y - c.w.start.y)

XYFull(c) == ToolProfile(c.tool).wiggleTravel * PosDen
XYHalf(c) == (ToolProfile(c.tool).wiggleTravel * PosDen) \div 2

\* C20 as stated: in a two-axis oscillation step i with rot = i mod 4 is a
\* full-travel horizontal offset when rot is even and a half-travel vertical
\* offset when rot is odd: right, down, left, up for steps 0, 1, 2, 3.
C20_XYWiggleAsStated ==
  \A c \in timers : \A i \in XYSteps(c) :
    StepOffset(c, i) =
      CASE i % 4 = 0 -> Point(XYFull(c), 0)
        [] i % 4 = 1 -> Point(0, XYHalf(c))
        [] i % 4 = 2 -> Point(-XYFull(c), 0)
        [] OTHER     -> Point(0, -XYHalf(c))

\* C20 as the code has it: in a two-axis oscillation step i with rot = i mod 4
\* is a half-travel vertical offset when rot is even and a full-travel
\* horizontal offset when rot is odd: up, left, down, right for steps 0, 1, 2, 3.
C20_XYWiggleDiamond ==
  \A c \in timers : \A i \in XYSteps(c) :
    StepOffset(c, i) =
      CASE i % 4 = 0 -> Point(0, -XYHalf(c))
        [] i % 4 = 1 -> Point(-XYFull(c), 0)
        [] i % 4 = 2 -> Point(0, XYHalf(c))
        [] OTHER     -> Point(XYFull(c), 0)

\* C20 witness: a two-axis oscillation has made its four steps and the return.
C20_Witness ==
  \E c \in timers : XYSteps(c) = 0..3 /\ Len(c.w.points) = 5

\* A setPen body that gets as far as movePenAbs (lines 461-527) with pen p.
ReachesMove(body, p) ==
  /\ ~body.resetCounter
  /\ ~body.hasSim
  /\ ~(body.hasState /\ body.state # p.state)
  /\ body.hasXY
  /\ ~IsNaN(body.x) /\ ~IsNaN(body.y)
  /\ ~(body.park /\ p.x = 0 /\ p.y = 0)

\* Math.round of a difference d, given in 1/PosDen steps, is 0.
RoundsToZero(d) == 0 <= 2 * d + PosDen /\ 2 * d + PosDen < 2 * PosDen

\* The clamped target of the body is no whole step away from the pen.
NoStepAway(body, p) ==
  \E t \in {ClampPoint(AbsInput(body))} :
     RoundsToZero(t.x - p.x) /\ RoundsToZero(t.y - p.y)

\* C21: a move of the pen endpoint (setPen or park) whose clamped target is no
\* whole step away from the pen is answered with success in the same turn,
\* issues no move command (a setPen issues no command at all), and leaves the
\* position, lastDuration and distanceCounter as they were.
C21_NoChangeMoveSucceeds ==
  [][(/\ nreq' = nreq + 1
      /\ req'.op \in {"setPen", "park"}
      /\ ReachesMove(req'.body, pen)
      /\ NoStepAway(req'.body, pen))
     => (/\ res'.id = req'.id
         /\ Succeeded(res')
         /\ \A i \in DOMAIN cmds' : cmds'[i].cmd.op # "SM"
         /\ req'.op = "setPen" => cmds' = <<>>
         /\ pen'.x = pen.x /\ pen'.y = pen.y
         /\ pen'.lastDuration = pen.lastDuration
         /\ pen'.distanceCounter = pen.distanceCounter)]_vars

\* C21 witness: a setPen to the position the pen already has, away from the
\* origin and with a distance counted before, was answered in its own turn.
C21_Witness ==
  /\ req.op = "setPen"
  /\ ReachesMove(req.body, pen)
  /\ req.from = ClampPoint(AbsInput(req.body))
  /\ req.from # Point(0, 0)
  /\ pen.x = req.from.x /\ pen.y = req.from.y
  /\ pen.distanceCounter > 0
  /\ res.id = req.id
  /\ cmds = <<>>

\* C22: every setPen request of the pen endpoint is eventually answered, that
\* is, its completion callback is eventually called, whatever the connection
\* state and the fields of the request.
C22_EverySetPenAnswered ==
  \A id \in 1..MaxLiveRequests :
    (req.id = id /\ req.op = "setPen") ~> (res.id = id)

\* C23: the answer to a reconnect asked for with setPen {simulation: 0} is a
\* success exactly when the port listing of the reconnect opened a port and
\* pen.simulation became 0, and a failure otherwise.
C23_ReconnectReportsOutcome ==
  [][(listing'.listed /\ res'.id # 0)
     => (Succeeded(res') <=> (listing'.opened /\ pen'.simulation = 0))]_vars

\* The fields of the pen a height change writes (lines 592-600).
SameButHeight(q, p) == q = [p EXCEPT !.height = q.height, !.state = q.state]

\* No command of the sequence moves the pen.
NoStepsIn(cs) ==
  \A i \in DOMAIN cs : cs[i].cmd.op = "SM" => (cs[i].cmd.b = 0 /\ cs[i].cmd.c = 0)

\* C24: a setPen request does one thing only, the first that applies of counter
\* reset, simulation toggle, state change and move.  A request with a changed
\* state and coordinates changes the height only: no move command, position
\* unchanged, and its callback is pending with success.
C24_OneActionPerRequest ==
  [][(nreq' = nreq + 1 /\ req'.op = "setPen")
     => \E body \in {req'.body} :
          IF body.resetCounter
            THEN pen' = [pen EXCEPT !.distanceCounter = 0] /\ cmds' = <<>>
          ELSE IF body.hasSim
            THEN pen' = [pen EXCEPT !.simulation = pen'.simulation] /\ cmds' = <<>>
          ELSE IF body.hasState /\ body.state # pen.state
            THEN /\ SameButHeight(pen', pen)
                 /\ NoStepsIn(cmds')
                 /\ \E c \in timers' \ timers :
                      c.id = req'.id /\ c.k = "penDone" /\ c.stat
          ELSE pen'.state = pen.state /\ pen'.height = pen.height]_vars

\* C24 witness: a request with a changed state and coordinates away from the
\* pen has changed the height, the pen is still where it was, and the callback
\* of the request is pending with success.
C24_Witness ==
  /\ req.op = "setPen"
  /\ req.body.hasState /\ req.body.hasXY
  /\ ~IsNaN(req.body.x) /\ ~IsNaN(req.body.y)
  /\ ClampPoint(AbsInput(req.body)) # req.from
  /\ pen.x = req.from.x /\ pen.y = req.from.y
  /\ pen.state = req.body.state
  /\ Len(cmds) = 3
  /\ \E c \in timers : c.id = req.id /\ c.k = "penDone" /\ c.stat

====
